---------------------------- MODULE Spec2Model ----------------------------
(***************************************************************************)
(* Curation Tracer (tracer.py): the request handler index() and the        *)
(* document builder build_annotation_container_curation(), over a store    *)
(* of canvases, curations and curation elements.                           *)
(*                                                                         *)
(* Text that the code takes apart (the raw `canvas` and `xywh` arguments,  *)
(* the base URL) is a sequence of one-character strings; text that the     *)
(* code only puts together is a string built with \o.                      *)
(***************************************************************************)
EXTENDS Integers, Sequences, FiniteSets, TLC

(***************************************************************************)
(* Bounds of the model.                                                    *)
(***************************************************************************)
\* longest curation_elements table of a store
MaxElems == 3
\* number of concurrently handled requests in SpecConc
NReq == 2
\* largest coordinate of the rectangles of the round-trip specification
MaxCoord == 2

VARIABLES
    store,              \* the database: canvases, curations, curation_elements
    cfg,                \* Cfg().cfg: curation_link_prefix, marker_settings
    hash_salt,          \* the process's string-hash salt
    uuid_clock,         \* uuid.uuid1()'s clock: the number of ids minted
    reqs,               \* the requests this process handles
    pc,                 \* per request: its position in index()
    args,               \* per request: request.args canvas, xywh
    canvas_uri,         \* per request: local canvas_uri
    can_db,             \* per request: locals can_db_id, can_db_man_jsonld_id
    backlinks_flat,     \* per request: local backlinks_flat
    backlinks_by_area,  \* per request: local backlinks_by_area
    display_curation,   \* per request: local display_curation
    response,           \* per request: the HTTP response
    reads,              \* per request: db_engine.execute calls made
    rt_pc, rt_rect, rt_poly, rt_xywh   \* the rectangle round trip

vars == <<store, cfg, hash_salt, uuid_clock, reqs, pc, args, canvas_uri,
          can_db, backlinks_flat, backlinks_by_area, display_curation,
          response, reads, rt_pc, rt_rect, rt_poly, rt_xywh>>

reqVars == <<uuid_clock, pc, args, canvas_uri, can_db, backlinks_flat,
             backlinks_by_area, display_curation, response, reads>>
procVars == <<store, cfg, hash_salt, reqs>>
rtVars == <<rt_pc, rt_rect, rt_poly, rt_xywh>>

(***************************************************************************)
(* Text helpers.                                                           *)
(***************************************************************************)
Alphabet ==
    <<"0", "1", "2", "3", "4", "5", "6", "7", "8", "9", "a", "b", "c", "d",
      "e", "f", "h", "n", "s", "t", "v", "w", "x", "y", ",", " ", "+", "-",
      "%", "/", "?", "=", "&", ":">>

DigitChars == <<"0", "1", "2", "3", "4", "5", "6", "7", "8", "9">>
HexChars == DigitChars \o <<"a", "b", "c", "d", "e", "f">>

RECURSIVE IndexIn(_, _, _)
IndexIn(c, table, i) ==
    IF i > Len(table) THEN 0
    ELSE IF table[i] = c THEN i
    ELSE IndexIn(c, table, i + 1)

IsDigit(c) == IndexIn(c, DigitChars, 1) > 0
DigitVal(c) == IndexIn(c, DigitChars, 1) - 1
IsHex(c) == IndexIn(c, HexChars, 1) > 0
HexVal(c) == IndexIn(c, HexChars, 1) - 1

\* ''.join(chars)
RECURSIVE Concat(_)
Concat(chars) ==
    IF chars = <<>> THEN "" ELSE Head(chars) \o Concat(Tail(chars))

\* chars.split(sep)
RECURSIVE SplitFrom(_, _, _)
SplitFrom(chars, sep, cur) ==
    IF chars = <<>> THEN <<cur>>
    ELSE IF Head(chars) = sep
         THEN <<cur>> \o SplitFrom(Tail(chars), sep, <<>>)
         ELSE SplitFrom(Tail(chars), sep, Append(cur, Head(chars)))

Split(chars, sep) == SplitFrom(chars, sep, <<>>)

\* chars.strip()
RECURSIVE LStrip(_)
LStrip(chars) ==
    IF chars # <<>> /\ Head(chars) = " " THEN LStrip(Tail(chars)) ELSE chars

RECURSIVE RStrip(_)
RStrip(chars) ==
    IF chars # <<>> /\ chars[Len(chars)] = " "
    THEN RStrip(SubSeq(chars, 1, Len(chars) - 1))
    ELSE chars

RECURSIVE DigitsValue(_, _)
DigitsValue(chars, acc) ==
    IF chars = <<>> THEN acc
    ELSE DigitsValue(Tail(chars), 10 * acc + DigitVal(Head(chars)))

AllDigits(chars) ==
    chars # <<>> /\ \A i \in 1..Len(chars) : IsDigit(chars[i])

\* int(chars): surrounding blanks, an optional sign, then decimal digits;
\* anything else raises ValueError (ok = FALSE)
PyInt(chars) ==
    LET s == RStrip(LStrip(chars))
        signed == s # <<>> /\ Head(s) \in {"+", "-"}
        body == IF signed THEN Tail(s) ELSE s
        mag == DigitsValue(body, 0)
    IN IF AllDigits(body)
       THEN [ok |-> TRUE,
             val |-> IF signed /\ Head(s) = "-" THEN 0 - mag ELSE mag]
       ELSE [ok |-> FALSE, val |-> 0]


\* chr(code), for the codes of the model's characters
Chr(code) ==
    IF code \in 48..57 THEN DigitChars[code - 47]
    ELSE IF code \in 97..102 THEN HexChars[code - 86]
    ELSE "?"

\* urllib.parse.unquote(chars): every %XX with two hex digits is decoded
RECURSIVE unquote(_)
unquote(chars) ==
    IF chars = <<>> THEN <<>>
    ELSE IF Head(chars) = "%" /\ Len(chars) >= 3
            /\ IsHex(chars[2]) /\ IsHex(chars[3])
         THEN <<Chr(16 * HexVal(chars[2]) + HexVal(chars[3]))>>
              \o unquote(SubSeq(chars, 4, Len(chars)))
         ELSE <<Head(chars)>> \o unquote(Tail(chars))

\* hex(n)[2:] for n >= 0
RECURSIVE Hex(_)
Hex(n) ==
    IF n < 16 THEN HexChars[n + 1]
    ELSE Hex(n \div 16) \o HexChars[(n % 16) + 1]

Abs(n) == IF n < 0 THEN 0 - n ELSE n

\* hash(chars): a signed value that depends on the text and on the salt the
\* process drew at start
RECURSIVE HashFold(_, _)
HashFold(chars, acc) ==
    IF chars = <<>> THEN acc
    ELSE HashFold(Tail(chars),
                  (31 * acc + IndexIn(Head(chars), Alphabet, 1)) % 65536)

PyHash(chars) == HashFold(chars, hash_salt) - 32768

query_hash(query_url) == Hex(Abs(PyHash(query_url)))

(***************************************************************************)
(* The request: request.args, request.url, request.base_url.               *)
(***************************************************************************)
Absent == [present |-> FALSE, chars |-> <<>>]
Arg(chars) == [present |-> TRUE, chars |-> chars]

\* Python truth value of a request argument (None and '' are false)
Truthy(a) == a.present /\ a.chars # <<>>

base_url == <<"h", ":", "/", "/", "t", "/">>

RequestUrl(a) ==
    base_url \o <<"?">>
    \o (IF a.canvas.present
        THEN <<"c", "a", "n", "v", "a", "s", "=">> \o a.canvas.chars
        ELSE <<>>)
    \o (IF a.canvas.present /\ a.xywh.present THEN <<"&">> ELSE <<>>)
    \o (IF a.xywh.present
        THEN <<"x", "y", "w", "h", "=">> \o a.xywh.chars
        ELSE <<>>)

CanvasArgs ==
    { Absent,
      Arg(<<>>),
      Arg(<<"c", "1">>),
      Arg(<<"c", "%", "3", "1">>),
      Arg(<<"c", "2">>),
      Arg(<<"c", "3">>) }

XywhArgs ==
    { Absent,
      Arg(<<>>),
      Arg(<<"0", ",", "0", ",", "2", ",", "2">>),
      Arg(<<"1", ",", "1", ",", "2", ",", "2">>),
      Arg(<<" ", "0", ",", "0", ",", "+", "3", ",", "3">>),
      Arg(<<"a", ",", "0", ",", "2", ",", "2">>),
      Arg(<<"0", ",", "0", ",", "2">>),
      Arg(<<"0", ",", "0", ",", "2", ",", "2", ",", "2">>),
      Arg(<<"0", ",", ",", "2", ",", "2">>) }

AllArgs == [canvas : CanvasArgs, xywh : XywhArgs]

\* the requests of the concurrent specification
ConcArgs ==
    [canvas : {Absent, Arg(<<"c", "1">>), Arg(<<"c", "3">>)},
     xywh : {Absent,
             Arg(<<"0", ",", "0", ",", "2", ",", "2">>),
             Arg(<<"a", ",", "0", ",", "2", ",", "2">>)}]

(***************************************************************************)
(* The store.                                                              *)
(***************************************************************************)
Canvases ==
    << [id |-> 1, jsonld_id |-> "c1", manifest_jsonld_id |-> "m1"],
       [id |-> 2, jsonld_id |-> "c2", manifest_jsonld_id |-> "m2"],
       [id |-> 3, jsonld_id |-> "c2", manifest_jsonld_id |-> "m3"] >>

Curations ==
    << [id |-> 1, jsonld_id |-> "A"], [id |-> 2, jsonld_id |-> "B"] >>

\* stored areas: closed rings of a rectangle, and a ring of 4 points
AreaA == << <<0, 0>>, <<1, 0>>, <<1, 1>>, <<0, 1>>, <<0, 0>> >>
AreaB == << <<1, 1>>, <<2, 1>>, <<2, 2>>, <<1, 2>>, <<1, 1>> >>
AreaC == << <<1, 1>>, <<3, 1>>, <<3, 3>>, <<1, 3>>, <<1, 1>> >>
AreaBad == << <<0, 0>>, <<1, 0>>, <<1, 1>>, <<0, 0>> >>

ElementPool ==
    { [curation_id |-> 1, canvas_id |-> 1, area |-> AreaA],
      [curation_id |-> 2, canvas_id |-> 1, area |-> AreaA],
      [curation_id |-> 1, canvas_id |-> 1, area |-> AreaC],
      [curation_id |-> 2, canvas_id |-> 1, area |-> AreaBad],
      [curation_id |-> 2, canvas_id |-> 2, area |-> AreaB] }

SeqsUpTo(S, n) == UNION { [1..k -> S] : k \in 0..n }

Stores ==
    { [canvases |-> Canvases, curations |-> Curations,
       curation_elements |-> es] : es \in SeqsUpTo(ElementPool, MaxElems) }

ConcStores ==
    { [canvases |-> Canvases, curations |-> Curations,
       curation_elements |-> es] :
         es \in { << [curation_id |-> 1, canvas_id |-> 1, area |-> AreaA],
                     [curation_id |-> 2, canvas_id |-> 1, area |-> AreaC] >>,
                  << [curation_id |-> 2, canvas_id |-> 1, area |-> AreaC],
                     [curation_id |-> 1, canvas_id |-> 1, area |-> AreaA],
                     [curation_id |-> 1, canvas_id |-> 1, area |-> AreaC] >> } }

Configs ==
    [curation_link_prefix : {"", "v/?c="},
     marker_settings : {[border_color |-> "#00BFFF", border_width |-> 1]}]

HashSalts == {7}

\* SELECT id, manifest_jsonld_id FROM canvases WHERE jsonld_id=:can_uri
\* (the rows from the i-th on)
RECURSIVE CanvasRows(_, _, _)
CanvasRows(st, can_uri, i) ==
    IF i > Len(st.canvases) THEN <<>>
    ELSE (IF st.canvases[i].jsonld_id = can_uri
          THEN <<[id |-> st.canvases[i].id,
                  manifest_jsonld_id |-> st.canvases[i].manifest_jsonld_id]>>
          ELSE <<>>)
         \o CanvasRows(st, can_uri, i + 1)

CanvasQuery(st, can_uri) == CanvasRows(st, can_uri, 1)

Min2(a, b) == IF a < b THEN a ELSE b
Max2(a, b) == IF a > b THEN a ELSE b

\* the least and the greatest k-th coordinate of the ring's points
RECURSIVE RingMin(_, _, _)
RingMin(ring, k, i) ==
    IF i = Len(ring) THEN ring[i][k]
    ELSE Min2(ring[i][k], RingMin(ring, k, i + 1))

RECURSIVE RingMax(_, _, _)
RingMax(ring, k, i) ==
    IF i = Len(ring) THEN ring[i][k]
    ELSE Max2(ring[i][k], RingMax(ring, k, i + 1))

\* ST_Within(area, poly) for a query polygon that is the ring of an
\* axis-aligned rectangle of positive width and height: every point of the
\* area lies in the closed region the ring bounds
ST_Within(area, poly) ==
    \A i \in 1..Len(area) :
        /\ RingMin(poly, 1, 1) <= area[i][1]
        /\ area[i][1] <= RingMax(poly, 1, 1)
        /\ RingMin(poly, 2, 1) <= area[i][2]
        /\ area[i][2] <= RingMax(poly, 2, 1)

\* the uris of the rows of curations whose id is cid (the rows from the
\* i-th on)
RECURSIVE CurationUris(_, _, _)
CurationUris(st, cid, i) ==
    IF i > Len(st.curations) THEN <<>>
    ELSE (IF st.curations[i].id = cid
          THEN <<st.curations[i].jsonld_id>>
          ELSE <<>>)
         \o CurationUris(st, cid, i + 1)

\* curations JOIN cue ON curations.id = cue.curation_id, for the rows of cue
\* from the i-th on; areajson is ST_AsGeoJSON(area)
RECURSIVE JoinRows(_, _, _)
JoinRows(st, cue, i) ==
    IF i > Len(cue) THEN <<>>
    ELSE LET uris == CurationUris(st, cue[i].curation_id, 1)
         IN [k \in 1..Len(uris) |->
                [uri |-> uris[k],
                 areajson |-> [type |-> "Polygon",
                               coordinates |-> <<cue[i].area>>]]]
            \o JoinRows(st, cue, i + 1)

\* WHERE [ST_Within(area, poly) and] canvas_id = can_db_id
ElementTest(row, use_poly, poly, can_db_id) ==
    /\ use_poly => ST_Within(row.area, poly)
    /\ row.canvas_id = can_db_id

\* the rows of curation_elements from the i-th on that pass ElementTest
RECURSIVE WhereElements(_, _, _, _, _)
WhereElements(st, use_poly, poly, can_db_id, i) ==
    IF i > Len(st.curation_elements) THEN <<>>
    ELSE LET row == st.curation_elements[i]
         IN (IF ElementTest(row, use_poly, poly, can_db_id)
             THEN <<row>> ELSE <<>>)
            \o WhereElements(st, use_poly, poly, can_db_id, i + 1)

\* AreaQuery with an intersection test in place of ST_Within: a region
\* passes when one of its points lies in the polygon
RECURSIVE WhereElementsIntersects(_, _, _, _, _)
WhereElementsIntersects(st, use_poly, poly, can_db_id, i) ==
    IF i > Len(st.curation_elements) THEN <<>>
    ELSE LET row == st.curation_elements[i]
             hit == \E k \in 1..Len(row.area) : ST_Within(<<row.area[k]>>, poly)
         IN (IF (use_poly => hit) /\ row.canvas_id = can_db_id
             THEN <<row>> ELSE <<>>)
            \o WhereElementsIntersects(st, use_poly, poly, can_db_id, i + 1)

AreaQueryIntersects(st, use_poly, poly, can_db_id) ==
    JoinRows(st, WhereElementsIntersects(st, use_poly, poly, can_db_id, 1), 1)

\* q_area: the curation elements of canvas can_db_id, those within poly when
\* a polygon is given, each joined with its curation
AreaQuery(st, use_poly, poly, can_db_id) ==
    JoinRows(st, WhereElements(st, use_poly, poly, can_db_id, 1), 1)

(***************************************************************************)
(* index(): the pure parts.                                                *)
(***************************************************************************)
\* x, y, w, h = [int(elem) for elem in area_xywh.split(',')]
\* ok = FALSE when int() or the unpacking raises ValueError
ParseXywh(chars) ==
    LET elems == Split(chars, ",")
        ints == [i \in 1..Len(elems) |-> PyInt(elems[i])]
    IN IF (\A i \in 1..Len(ints) : ints[i].ok) /\ Len(ints) = 4
       THEN [ok |-> TRUE, x |-> ints[1].val, y |-> ints[2].val,
             w |-> ints[3].val, h |-> ints[4].val]
       ELSE [ok |-> FALSE, x |-> 0, y |-> 0, w |-> 0, h |-> 0]

\* the ring of POLYGON((x y, x+w y, x+w y+h, x y+h, x y))
poly(x, y, w, h) ==
    << <<x, y>>, <<x + w, y>>, <<x + w, y + h>>, <<x, y + h>>, <<x, y>> >>

\* AreaXywh that takes the far corner for the width and height
AreaXywhCorner(coords) ==
    LET p1 == coords[1]
        p2 == coords[2]
        p3 == coords[3]
    IN ToString(p1[1]) \o "," \o ToString(p1[2]) \o ","
       \o ToString(p2[1]) \o "," \o ToString(p3[2])

\* '{},{},{},{}'.format(p1[0], p1[1], p2[0]-p1[0], p3[1]-p1[1])
AreaXywh(coords) ==
    LET p1 == coords[1]
        p2 == coords[2]
        p3 == coords[3]
    IN ToString(p1[1]) \o "," \o ToString(p1[2]) \o ","
       \o ToString(p2[1] - p1[1]) \o "," \o ToString(p3[2] - p1[2])

\* backlinks_by_area is a dict in insertion order: a sequence of entries
DictHas(d, k) == \E i \in 1..Len(d) : d[i].key = k

\* DictAppend that puts a new key in front of the others
DictAppendFront(d, k, v) ==
    IF DictHas(d, k)
    THEN [i \in 1..Len(d) |->
             IF d[i].key = k
             THEN [key |-> k, uris |-> Append(d[i].uris, v)]
             ELSE d[i]]
    ELSE <<[key |-> k, uris |-> <<v>>]>> \o d

\* d[k].append(v), after d[k] = [] when k is new
DictAppend(d, k, v) ==
    IF DictHas(d, k)
    THEN [i \in 1..Len(d) |->
             IF d[i].key = k
             THEN [key |-> k, uris |-> Append(d[i].uris, v)]
             ELSE d[i]]
    ELSE Append(d, [key |-> k, uris |-> <<v>>])

\* the loop over backlinks_flat; ok = FALSE when the unpacking
\* p1, p2, p3, p4, p5 = coords raises ValueError
RECURSIVE GroupByArea(_, _, _)
GroupByArea(d, flat, i) ==
    IF i > Len(flat) THEN [ok |-> TRUE, dict |-> d]
    ELSE LET uri == flat[i][1]
             coords == flat[i][2].coordinates[1]
         IN IF Len(coords) # 5
            THEN [ok |-> FALSE, dict |-> d]
            ELSE GroupByArea(DictAppend(d, AreaXywh(coords), uri), flat, i + 1)

(***************************************************************************)
(* build_annotation_container_curation().                                  *)
(***************************************************************************)
\* BacklinkListChars that lists a URI only where it occurs first
RECURSIVE BacklinkListCharsDedup(_, _, _)
BacklinkListCharsDedup(uris, curation_link_prefix, i) ==
    IF i > Len(uris) THEN ""
    ELSE IF \E j \in 1..(i - 1) : uris[j] = uris[i]
    THEN BacklinkListCharsDedup(uris, curation_link_prefix, i + 1)
    ELSE LET use_prefix == Len(curation_link_prefix) > 0
             backlink_uri == IF use_prefix
                             THEN curation_link_prefix \o uris[i]
                             ELSE uris[i]
         IN (IF i > 1 THEN ",<br>" ELSE "")
            \o "<a href=\"" \o backlink_uri \o "\">Curation "
            \o ToString(i) \o "</a>"
            \o BacklinkListCharsDedup(uris, curation_link_prefix, i + 1)

\* the chars of one annotation: the links to the curations in uris
RECURSIVE BacklinkListChars(_, _, _)
BacklinkListChars(uris, curation_link_prefix, i) ==
    IF i > Len(uris) THEN ""
    ELSE LET use_prefix == Len(curation_link_prefix) > 0
             backlink_uri == IF use_prefix
                             THEN curation_link_prefix \o uris[i]
                             ELSE uris[i]
         IN (IF i > 1 THEN ",<br>" ELSE "")
            \o "<a href=\"" \o backlink_uri \o "\">Curation "
            \o ToString(i) \o "</a>"
            \o BacklinkListChars(uris, curation_link_prefix, i + 1)

StripSlash(chars) ==
    IF chars[Len(chars)] = "/" THEN SubSeq(chars, 1, Len(chars) - 1)
    ELSE chars

\* uuid.uuid1() at clock value n
Uuid1(n) == "uuid" \o ToString(n)

\* the curation built when uuid.uuid1()'s clock stands at clock
build_annotation_container_curation(cv_uri, containing_manifest_uri, backlinks, query_url, base, clock) ==
    LET q_hash == query_hash(query_url)
        base_str == Concat(StripSlash(base))
        Ann(i) ==
            [id |-> base_str \o "/trace/" \o q_hash \o "/annotation/"
                    \o Uuid1(clock + i),
             type |-> "oa:Annotation",
             motivation |-> "sc:painting",
             on |-> cv_uri \o "#xywh=" \o backlinks[i].key,
             resource |->
                [type |-> "cnt:ContentAsText",
                 format |-> "text/html",
                 chars |-> BacklinkListChars(backlinks[i].uris,
                                             cfg.curation_link_prefix, 1),
                 marker |-> cfg.marker_settings]]
        mem == [id |-> cv_uri,
                type |-> "sc:Canvas",
                metadata |-> [i \in 1..Len(backlinks) |->
                                 [label |-> "Annotation", value |-> <<Ann(i)>>]]]
        sel == [id |-> base_str \o "/trace/" \o q_hash \o "/range/"
                       \o Uuid1(clock),
                type |-> "sc:Range",
                members |-> <<mem>>,
                within |-> [id |-> containing_manifest_uri,
                            type |-> "sc:Manifest"]]
    IN [id |-> Concat(query_url),
        type |-> "cr:Curation",
        viewingHint |-> "annotation",
        label |-> "Tracing Curations for " \o cv_uri,
        selections |-> <<sel>>]

(***************************************************************************)
(* index(): the steps of one request r.                                    *)
(***************************************************************************)
NoArgs == [canvas |-> Absent, xywh |-> Absent]
Unbound == [bound |-> FALSE, id |-> 0, manifest_jsonld_id |-> ""]
NoResponse == [status |-> 0, body |-> <<>>]

\* abort(status), or an exception that nothing catches (status 500)
Abort(r, status) ==
    /\ response' = [response EXCEPT ![r] = [status |-> status, body |-> <<>>]]
    /\ pc' = [pc EXCEPT ![r] = "done"]

\* a request arrives with its arguments
Receive(r, pool) ==
    /\ pc[r] = "idle"
    /\ \E a \in pool : args' = [args EXCEPT ![r] = a]
    /\ pc' = [pc EXCEPT ![r] = "validate"]
    /\ UNCHANGED <<procVars, rtVars, uuid_clock, canvas_uri, can_db,
                   backlinks_flat, backlinks_by_area, display_curation,
                   response, reads>>

\* Validate that rejects only a missing canvas argument, not an empty one
ValidateNoneOnly(r) ==
    /\ pc[r] = "validate"
    /\ IF ~args[r].canvas.present
       THEN /\ Abort(r, 400)
            /\ UNCHANGED canvas_uri
       ELSE /\ canvas_uri' = [canvas_uri EXCEPT
                                 ![r] = Concat(unquote(args[r].canvas.chars))]
            /\ pc' = [pc EXCEPT ![r] = "resolve"]
            /\ UNCHANGED response
    /\ UNCHANGED <<procVars, rtVars, uuid_clock, args, can_db,
                   backlinks_flat, backlinks_by_area, display_curation, reads>>

\* if not canvas_uri_raw: abort(400); canvas_uri = unquote(canvas_uri_raw)
Validate(r) ==
    /\ pc[r] = "validate"
    /\ IF ~Truthy(args[r].canvas)
       THEN /\ Abort(r, 400)
            /\ UNCHANGED canvas_uri
       ELSE /\ canvas_uri' = [canvas_uri EXCEPT
                                 ![r] = Concat(unquote(args[r].canvas.chars))]
            /\ pc' = [pc EXCEPT ![r] = "resolve"]
            /\ UNCHANGED response
    /\ UNCHANGED <<procVars, rtVars, uuid_clock, args, can_db, backlinks_flat,
                   backlinks_by_area, display_curation, reads>>

\* the canvas lookup: no row aborts with 404, one row binds can_db_id and
\* can_db_man_jsonld_id, several rows bind neither
Resolve(r) ==
    /\ pc[r] = "resolve"
    /\ reads' = [reads EXCEPT ![r] = @ + 1]
    /\ LET can_db_tpls == CanvasQuery(store, canvas_uri[r])
       IN IF can_db_tpls = <<>>
          THEN /\ Abort(r, 404)
               /\ UNCHANGED can_db
          ELSE /\ can_db' = [can_db EXCEPT ![r] =
                      IF Len(can_db_tpls) = 1
                      THEN [bound |-> TRUE,
                            id |-> can_db_tpls[1].id,
                            manifest_jsonld_id |->
                                can_db_tpls[1].manifest_jsonld_id]
                      ELSE Unbound]
               /\ pc' = [pc EXCEPT ![r] = "match"]
               /\ UNCHANGED response
    /\ UNCHANGED <<procVars, rtVars, uuid_clock, args, canvas_uri,
                   backlinks_flat, backlinks_by_area, display_curation>>

\* the area query and backlinks_flat; a ValueError of the xywh parsing and the
\* UnboundLocalError of can_db_id end the request with 500
Match(r) ==
    /\ pc[r] = "match"
    /\ LET area_xywh == args[r].xywh
           parsed == ParseXywh(area_xywh.chars)
       IN IF (Truthy(area_xywh) /\ ~parsed.ok) \/ ~can_db[r].bound
          THEN /\ Abort(r, 500)
               /\ UNCHANGED <<backlinks_flat, reads>>
          ELSE /\ LET cur_uris ==
                         AreaQuery(store, Truthy(area_xywh),
                                   poly(parsed.x, parsed.y, parsed.w, parsed.h),
                                   can_db[r].id)
                  IN backlinks_flat' = [backlinks_flat EXCEPT ![r] =
                         [i \in 1..Len(cur_uris) |->
                             <<cur_uris[i].uri,
                               [coordinates |->
                                   cur_uris[i].areajson.coordinates]>>]]
               /\ reads' = [reads EXCEPT ![r] = @ + 1]
               /\ pc' = [pc EXCEPT ![r] = "aggregate"]
               /\ UNCHANGED response
    /\ UNCHANGED <<procVars, rtVars, uuid_clock, args, canvas_uri, can_db,
                   backlinks_by_area, display_curation>>

\* Aggregate over a dict that is shared by the requests and never emptied
AggregateShared(r) ==
    /\ pc[r] = "aggregate"
    /\ LET others == {q \in reqs : q # r /\ backlinks_by_area[q] # <<>>}
           shared == IF others = {} THEN <<>>
                     ELSE backlinks_by_area[CHOOSE q \in others : TRUE]
           res == GroupByArea(shared, backlinks_flat[r], 1)
       IN IF ~res.ok
          THEN /\ Abort(r, 500)
               /\ UNCHANGED backlinks_by_area
          ELSE /\ backlinks_by_area' =
                      [backlinks_by_area EXCEPT ![r] = res.dict]
               /\ pc' = [pc EXCEPT ![r] = "build"]
               /\ UNCHANGED response
    /\ UNCHANGED <<procVars, rtVars, uuid_clock, args, canvas_uri, can_db,
                   backlinks_flat, display_curation, reads>>

\* backlinks_by_area = {} and the loop that fills it
Aggregate(r) ==
    /\ pc[r] = "aggregate"
    /\ LET res == GroupByArea(<<>>, backlinks_flat[r], 1)
       IN IF ~res.ok
          THEN /\ Abort(r, 500)
               /\ UNCHANGED backlinks_by_area
          ELSE /\ backlinks_by_area' =
                      [backlinks_by_area EXCEPT ![r] = res.dict]
               /\ pc' = [pc EXCEPT ![r] = "build"]
               /\ UNCHANGED response
    /\ UNCHANGED <<procVars, rtVars, uuid_clock, args, canvas_uri, can_db,
                   backlinks_flat, display_curation, reads>>

\* display_curation = build_annotation_container_curation(...): one uuid for
\* the range and one for every annotation
Build(r) ==
    /\ pc[r] = "build"
    /\ display_curation' = [display_curation EXCEPT ![r] =
           <<build_annotation_container_curation(
                 canvas_uri[r], can_db[r].manifest_jsonld_id,
                 backlinks_by_area[r], RequestUrl(args[r]), base_url,
                 uuid_clock)>>]
    /\ uuid_clock' = uuid_clock + 1 + Len(backlinks_by_area[r])
    /\ pc' = [pc EXCEPT ![r] = "serialize"]
    /\ UNCHANGED <<procVars, rtVars, args, canvas_uri, can_db, backlinks_flat,
                   backlinks_by_area, response, reads>>

\* return jsonify(display_curation)
Serialize(r) ==
    /\ pc[r] = "serialize"
    /\ response' = [response EXCEPT
                       ![r] = [status |-> 200, body |-> display_curation[r]]]
    /\ pc' = [pc EXCEPT ![r] = "done"]
    /\ UNCHANGED <<procVars, rtVars, uuid_clock, args, canvas_uri, can_db,
                   backlinks_flat, backlinks_by_area, display_curation, reads>>

(***************************************************************************)
(* The rectangle round trip: the polygon index() builds from x, y, w, h,   *)
(* then the xywh string index() derives from a polygon.                    *)
(***************************************************************************)
RTCoords == (0..MaxCoord) \cup {10, 20, 30, 40}

RTBuild ==
    /\ rt_pc = "rect"
    /\ rt_poly' = poly(rt_rect[1], rt_rect[2], rt_rect[3], rt_rect[4])
    /\ rt_pc' = "poly"
    /\ UNCHANGED <<procVars, reqVars, rt_rect, rt_xywh>>

RTNormalize ==
    /\ rt_pc = "poly"
    /\ rt_xywh' = AreaXywh(rt_poly)
    /\ rt_pc' = "xywh"
    /\ UNCHANGED <<procVars, reqVars, rt_rect, rt_poly>>

(***************************************************************************)
(* Specifications.                                                         *)
(***************************************************************************)
InitProc(stores, rs) ==
    /\ store \in stores
    /\ cfg \in Configs
    /\ hash_salt \in HashSalts
    /\ uuid_clock = 0
    /\ reqs = rs
    /\ pc = [r \in rs |-> "idle"]
    /\ args = [r \in rs |-> NoArgs]
    /\ canvas_uri = [r \in rs |-> ""]
    /\ can_db = [r \in rs |-> Unbound]
    /\ backlinks_flat = [r \in rs |-> <<>>]
    /\ backlinks_by_area = [r \in rs |-> <<>>]
    /\ display_curation = [r \in rs |-> <<>>]
    /\ response = [r \in rs |-> NoResponse]
    /\ reads = [r \in rs |-> 0]

InitRTIdle ==
    /\ rt_pc = "off"
    /\ rt_rect = <<0, 0, 0, 0>>
    /\ rt_poly = <<>>
    /\ rt_xywh = ""

\* one request at a time
Init == InitProc(Stores, {1}) /\ InitRTIdle

Next ==
    \/ Receive(1, AllArgs)
    \/ Validate(1)
    \/ Resolve(1)
    \/ Match(1)
    \/ Aggregate(1)
    \/ Build(1)
    \/ Serialize(1)

Spec == Init /\ [][Next]_vars

\* NReq requests whose steps interleave
InitConc == InitProc(ConcStores, 1..NReq) /\ InitRTIdle

NextConc ==
    \E r \in 1..NReq :
        \/ Receive(r, ConcArgs)
        \/ Validate(r)
        \/ Resolve(r)
        \/ Match(r)
        \/ Aggregate(r)
        \/ Build(r)
        \/ Serialize(r)

SpecConc == InitConc /\ [][NextConc]_vars

\* the round trip of every rectangle over RTCoords
InitRT ==
    /\ InitProc({[canvases |-> Canvases, curations |-> Curations,
                  curation_elements |-> <<>>]}, {})
    /\ rt_pc = "rect"
    /\ rt_rect \in RTCoords \X RTCoords \X RTCoords \X RTCoords
    /\ rt_poly = <<>>
    /\ rt_xywh = ""

NextRT == RTBuild \/ RTNormalize

SpecRT == InitRT /\ [][NextRT]_vars

(***************************************************************************)
(* Vocabulary of the properties.                                           *)
(***************************************************************************)
Done(r) == pc[r] = "done"

\* the region matcher has returned its list for request r
Matched(r) == reads[r] = 2

\* the document of request r has been built
Built(r) == display_curation[r] # <<>>

\* a rectangle is given: the xywh argument is there and not empty
RectGiven(r) == args[r].xywh.present /\ args[r].xywh.chars # <<>>

\* the xywh argument is four comma-separated integers
FourIntegers(chars) ==
    LET elems == Split(chars, ",")
    IN Len(elems) = 4 /\ \A i \in 1..4 : PyInt(elems[i]).ok

\* the canvas URI the request asks for
RequestedCanvas(r) == Concat(unquote(args[r].canvas.chars))

\* the rows of canvases that carry the requested URI
StoredCanvases(r) ==
    {i \in 1..Len(store.canvases) :
        store.canvases[i].jsonld_id = RequestedCanvas(r)}

\* every point of the area lies in the rectangle x, y, w, h
InRectangle(area, x, y, w, h) ==
    \A i \in 1..Len(area) :
        /\ x <= area[i][1] /\ area[i][1] <= x + w
        /\ y <= area[i][2] /\ area[i][2] <= y + h

\* a point of the area lies in the rectangle and another does not
PartlyInRectangle(area, x, y, w, h) ==
    /\ \E i \in 1..Len(area) : InRectangle(<<area[i]>>, x, y, w, h)
    /\ ~InRectangle(area, x, y, w, h)

UriOfCuration(cid) ==
    LET i == CHOOSE k \in 1..Len(store.curations) : store.curations[k].id = cid
    IN store.curations[i].jsonld_id

\* the indices of the stored regions the matcher is to return for request r
RegionsWanted(r) ==
    LET rect == ParseXywh(args[r].xywh.chars)
    IN {i \in 1..Len(store.curation_elements) :
          /\ store.curation_elements[i].canvas_id = can_db[r].id
          /\ RectGiven(r) =>
                InRectangle(store.curation_elements[i].area,
                            rect.x, rect.y, rect.w, rect.h)}

\* the elements of the index set S in rising order
RECURSIVE Ascending(_)
Ascending(S) ==
    IF S = {} THEN <<>>
    ELSE LET m == CHOOSE i \in S : \A j \in S : i <= j
         IN <<m>> \o Ascending(S \ {m})

\* the sequence without the later occurrences of its elements
RECURSIVE FirstSeen(_)
FirstSeen(seq) ==
    IF seq = <<>> THEN <<>>
    ELSE LET front == FirstSeen(SubSeq(seq, 1, Len(seq) - 1))
             last == seq[Len(seq)]
         IN IF \E i \in 1..Len(front) : front[i] = last
            THEN front
            ELSE Append(front, last)

\* the normalized rectangle strings of the matched pairs, in store order
MatchedKeys(r) ==
    [i \in 1..Len(backlinks_flat[r]) |->
        AreaXywh(backlinks_flat[r][i][2].coordinates[1])]

\* the URIs of the matched pairs of rectangle key, in store order
Contributors(r, key) ==
    LET keys == MatchedKeys(r)
        idx == Ascending({i \in 1..Len(keys) : keys[i] = key})
    IN [n \in 1..Len(idx) |-> backlinks_flat[r][idx[n]][1]]

\* the metadata entries of the Canvas member of request r's document
Metadata(r) == display_curation[r][1].selections[1].members[1].metadata

\* the hyperlink of the n-th contributor
Link(uri, n) ==
    "<a href=\""
    \o (IF cfg.curation_link_prefix # "" THEN cfg.curation_link_prefix ELSE "")
    \o uri \o "\">Curation " \o ToString(n) \o "</a>"

\* the hyperlinks of the contributors, the last one first in the recursion
RECURSIVE Links(_)
Links(uris) ==
    IF uris = <<>> THEN ""
    ELSE LET n == Len(uris)
         IN Links(SubSeq(uris, 1, n - 1))
            \o (IF n > 1 THEN ",<br>" ELSE "") \o Link(uris[n], n)

(***************************************************************************)
(* C1: the region matcher returns, in store order, every stored region of  *)
(* the resolved canvas when no rectangle is given, and exactly the regions *)
(* of that canvas whose polygon lies fully in the rectangle when one is    *)
(* given; a region of another canvas or one that lies only partly in the   *)
(* rectangle is never returned.                                            *)
(***************************************************************************)
C1_RegionMatcher ==
    \A r \in reqs :
        Matched(r) =>
            LET idx == Ascending(RegionsWanted(r))
                rect == ParseXywh(args[r].xywh.chars)
            IN /\ Len(backlinks_flat[r]) = Len(idx)
               /\ \A n \in 1..Len(idx) :
                     LET e == store.curation_elements[idx[n]]
                     IN /\ backlinks_flat[r][n][1] = UriOfCuration(e.curation_id)
                        /\ backlinks_flat[r][n][2].coordinates = <<e.area>>
               /\ can_db[r].id \in
                     {store.canvases[i].id : i \in StoredCanvases(r)}
               /\ RectGiven(r) =>
                     \A n \in 1..Len(backlinks_flat[r]) :
                        ~PartlyInRectangle(
                            backlinks_flat[r][n][2].coordinates[1],
                            rect.x, rect.y, rect.w, rect.h)

\* a rectangle was given, a region was returned, and a stored region of the
\* canvas that lies partly in the rectangle was left out
C1_Witness ==
    \E r \in reqs :
        /\ Matched(r) /\ RectGiven(r)
        /\ backlinks_flat[r] # <<>>
        /\ LET rect == ParseXywh(args[r].xywh.chars)
           IN \E i \in 1..Len(store.curation_elements) :
                 /\ store.curation_elements[i].canvas_id = can_db[r].id
                 /\ PartlyInRectangle(store.curation_elements[i].area,
                                      rect.x, rect.y, rect.w, rect.h)
                 /\ Len(backlinks_flat[r]) < Len(store.curation_elements)

(***************************************************************************)
(* C2: the Canvas member of a built document has one metadata entry per    *)
(* distinct normalized rectangle string of the matched pairs, in the order *)
(* in which the rectangles were first seen, each entry with one Annotation *)
(* whose target is <canvasURI>#xywh=<rectangle>; the response carries the  *)
(* document unchanged.                                                     *)
(***************************************************************************)
C2_MetadataPerRectangle ==
    \A r \in reqs :
        Built(r) =>
            LET keys == FirstSeen(MatchedKeys(r))
                md == Metadata(r)
            IN /\ Len(md) = Len(keys)
               /\ Len(md) = Cardinality({MatchedKeys(r)[i] :
                                            i \in 1..Len(backlinks_flat[r])})
               /\ \A i \in 1..Len(md) :
                     /\ Len(md[i].value) = 1
                     /\ md[i].value[1].type = "oa:Annotation"
                     /\ md[i].value[1].on =
                            RequestedCanvas(r) \o "#xywh=" \o keys[i]
               /\ Done(r) => response[r].body = display_curation[r]

\* three matched pairs, the third with the rectangle of the first and the
\* second with another one: two entries, the first pair's rectangle first
C2_Witness ==
    \E r \in reqs :
        /\ Done(r) /\ Built(r)
        /\ Len(backlinks_flat[r]) = 3
        /\ MatchedKeys(r)[1] = MatchedKeys(r)[3]
        /\ MatchedKeys(r)[1] # MatchedKeys(r)[2]
        /\ Len(Metadata(r)) = 2
        /\ Metadata(r)[1].value[1].on = "c1#xywh=" \o MatchedKeys(r)[1]

(***************************************************************************)
(* C3: the body of the annotation of a rectangle lists the rectangle's     *)
(* contributing curation URIs in store order and without deduplication,    *)
(* the n-th as the hyperlink 'Curation n' to the URI, prefixed with the    *)
(* configured link prefix exactly when the prefix is not empty.            *)
(***************************************************************************)
C3_BodyListsContributors ==
    \A r \in reqs :
        Built(r) =>
            LET keys == FirstSeen(MatchedKeys(r))
                md == Metadata(r)
            IN \A i \in 1..Len(md) :
                  /\ i <= Len(keys)
                  /\ md[i].value[1].resource.chars =
                        Links(Contributors(r, keys[i]))
                  /\ md[i].value[1].resource.marker = cfg.marker_settings

\* contributors A then B of one rectangle under a configured prefix
C3_Witness ==
    \E r \in reqs :
        /\ Built(r)
        /\ cfg.curation_link_prefix = "v/?c="
        /\ \E i \in 1..Len(Metadata(r)) :
              /\ Contributors(r, FirstSeen(MatchedKeys(r))[i]) = <<"A", "B">>
              /\ Metadata(r)[i].value[1].resource.chars =
                    "<a href=\"v/?c=A\">Curation 1</a>,<br>"
                    \o "<a href=\"v/?c=B\">Curation 2</a>"

\* the matched pairs whose polygon ring has exactly 5 coordinate pairs
ValidPairs(r) ==
    LET flat == backlinks_flat[r]
        idx == Ascending({i \in 1..Len(flat) :
                             Len(flat[i][2].coordinates[1]) = 5})
    IN [n \in 1..Len(idx) |-> flat[idx[n]]]

\* the targets of the annotations of a response body
Targets(body) ==
    LET md == body[1].selections[1].members[1].metadata
    IN [i \in 1..Len(md) |-> md[i].value[1].on]

(***************************************************************************)
(* C4: when a matched region's polygon ring does not have exactly 5        *)
(* coordinate pairs, the pair is skipped: the request ends with a          *)
(* successful response whose document holds exactly the groups of the      *)
(* remaining valid regions.                                                *)
(***************************************************************************)
C4_MalformedRegionSkipped ==
    \A r \in reqs :
        (/\ Done(r) /\ Matched(r)
         /\ \E i \in 1..Len(backlinks_flat[r]) :
               Len(backlinks_flat[r][i][2].coordinates[1]) # 5)
        => /\ response[r].status = 200
           /\ response[r].body # <<>>
           /\ LET valid == ValidPairs(r)
                  keys == FirstSeen([i \in 1..Len(valid) |->
                              AreaXywh(valid[i][2].coordinates[1])])
              IN Targets(response[r].body) =
                    [i \in 1..Len(keys) |->
                        RequestedCanvas(r) \o "#xywh=" \o keys[i]]

(***************************************************************************)
(* C5: when the canvas lookup returns more than one stored canvas, the     *)
(* first one's internal key and parent manifest URI are used and the       *)
(* request ends with a successful document.                                *)
(***************************************************************************)
C5_FirstCanvasUsed ==
    \A r \in reqs :
        (/\ Done(r) /\ Truthy(args[r].canvas)
         /\ Cardinality(StoredCanvases(r)) > 1
         /\ RectGiven(r) => FourIntegers(args[r].xywh.chars))
        => LET first == store.canvases[
                            CHOOSE i \in StoredCanvases(r) :
                                \A j \in StoredCanvases(r) : i <= j]
           IN /\ response[r].status = 200
              /\ response[r].body # <<>>
              /\ can_db[r].id = first.id
              /\ response[r].body[1].selections[1].within.id =
                    first.manifest_jsonld_id

(***************************************************************************)
(* C6: a request with no or an empty canvas argument ends with 400 without *)
(* the store being read; a request whose canvas URI matches no stored      *)
(* canvas ends with 404; neither returns a document.                       *)
(***************************************************************************)
C6_MissingAndUnknownCanvas ==
    \A r \in reqs :
        /\ (pc[r] # "idle" /\ pc[r] # "validate" /\ ~Truthy(args[r].canvas))
              => /\ Done(r)
                 /\ response[r] = [status |-> 400, body |-> <<>>]
                 /\ reads[r] = 0
        /\ (Done(r) /\ Truthy(args[r].canvas) /\ StoredCanvases(r) = {})
              => /\ response[r] = [status |-> 404, body |-> <<>>]
                 /\ display_curation[r] = <<>>

\* an unknown canvas was looked up and answered with 404
C6_Witness ==
    \E r \in reqs :
        /\ Done(r) /\ Truthy(args[r].canvas) /\ StoredCanvases(r) = {}
        /\ reads[r] = 1
        /\ response[r].status = 404

(***************************************************************************)
(* C7: a request whose xywh argument is present but is not four            *)
(* comma-separated integers ends with the client input error 400, not with *)
(* a server error and not with a document. Stated for the requests whose   *)
(* canvas is stored once, where no other error can come first.             *)
(***************************************************************************)
C7_MalformedXywhIs400 ==
    \A r \in reqs :
        (/\ Done(r) /\ Truthy(args[r].canvas)
         /\ Cardinality(StoredCanvases(r)) = 1
         /\ args[r].xywh.present
         /\ ~FourIntegers(args[r].xywh.chars))
        => response[r] = [status |-> 400, body |-> <<>>]

(***************************************************************************)
(* C8: a request ends in exactly one outcome, a complete document or an    *)
(* error without any document, and the validation of canvas and xywh is    *)
(* decided before the canvas is resolved: a request with a malformed xywh  *)
(* and an unknown canvas ends with the client input error.                 *)
(***************************************************************************)
C8_ValidationBeforeResolve ==
    \A r \in reqs :
        Done(r) =>
            /\ \/ response[r].status = 200 /\ response[r].body # <<>>
               \/ response[r].status \in {400, 404, 500}
                  /\ response[r].body = <<>>
            /\ (/\ Truthy(args[r].canvas)
                /\ StoredCanvases(r) = {}
                /\ args[r].xywh.present
                /\ ~FourIntegers(args[r].xywh.chars))
               => response[r].status = 400

(***************************************************************************)
(* C9: the rectangle round trip. The polygon built from x, y, w, h is the  *)
(* closed ring (x,y), (x+w,y), (x+w,y+h), (x,y+h), (x,y), and its          *)
(* normalization is the string 'x,y,w,h'; (10, 20, 30, 40) comes back as   *)
(* '10,20,30,40'.                                                          *)
(***************************************************************************)
C9_RectangleRoundTrip ==
    LET x == rt_rect[1]
        y == rt_rect[2]
        w == rt_rect[3]
        h == rt_rect[4]
    IN /\ rt_pc \in {"poly", "xywh"} =>
             /\ Len(rt_poly) = 5
             /\ rt_poly[1] = <<x, y>> /\ rt_poly[2] = <<x + w, y>>
             /\ rt_poly[3] = <<x + w, y + h>> /\ rt_poly[4] = <<x, y + h>>
             /\ rt_poly[5] = rt_poly[1]
       /\ rt_pc = "xywh" =>
             /\ rt_xywh = ToString(x) \o "," \o ToString(y) \o ","
                          \o ToString(w) \o "," \o ToString(h)
             /\ rt_rect = <<10, 20, 30, 40>> => rt_xywh = "10,20,30,40"

\* the rectangle (10, 20, 30, 40) has made the round trip
C9_Witness ==
    /\ rt_pc = "xywh"
    /\ rt_rect = <<10, 20, 30, 40>>
    /\ rt_poly = << <<10, 20>>, <<40, 20>>, <<40, 60>>, <<10, 60>>, <<10, 20>> >>
    /\ rt_xywh = "10,20,30,40"

(***************************************************************************)
(* The outcome of a request handled alone, from its arguments and the      *)
(* store.                                                                  *)
(***************************************************************************)
AloneOutcome(a) ==
    IF ~Truthy(a.canvas) THEN [status |-> 400, doc |-> <<>>]
    ELSE
    LET uri == Concat(unquote(a.canvas.chars))
        tpls == CanvasQuery(store, uri)
        parsed == ParseXywh(a.xywh.chars)
    IN IF tpls = <<>> THEN [status |-> 404, doc |-> <<>>]
       ELSE IF Len(tpls) # 1 \/ (Truthy(a.xywh) /\ ~parsed.ok)
       THEN [status |-> 500, doc |-> <<>>]
       ELSE
       LET rows == AreaQuery(store, Truthy(a.xywh),
                             poly(parsed.x, parsed.y, parsed.w, parsed.h),
                             tpls[1].id)
           flat == [i \in 1..Len(rows) |->
                       <<rows[i].uri,
                         [coordinates |-> rows[i].areajson.coordinates]>>]
           res == GroupByArea(<<>>, flat, 1)
       IN IF ~res.ok THEN [status |-> 500, doc |-> <<>>]
          ELSE [status |-> 200,
                doc |-> <<build_annotation_container_curation(
                              uri, tpls[1].manifest_jsonld_id, res.dict,
                              RequestUrl(a), base_url, 0)>>]

\* a document without the fresh ids of its range and annotations
WithoutFreshIds(body) ==
    IF body = <<>> THEN <<>>
    ELSE LET doc == body[1]
             sel == doc.selections[1]
             mem == sel.members[1]
         IN <<[id |-> doc.id, label |-> doc.label,
               within |-> sel.within, canvas |-> mem.id,
               annotations |->
                   [i \in 1..Len(mem.metadata) |->
                       [on |-> mem.metadata[i].value[1].on,
                        resource |-> mem.metadata[i].value[1].resource]]]>>

\* what belongs to request r alone
Locals(r) ==
    <<pc[r], args[r], canvas_uri[r], can_db[r], backlinks_flat[r],
      backlinks_by_area[r], display_curation[r], response[r], reads[r]>>

OutcomeAsAlone ==
    \A r \in reqs :
        Done(r) =>
            /\ response[r].status = AloneOutcome(args[r]).status
            /\ WithoutFreshIds(response[r].body) =
                  WithoutFreshIds(AloneOutcome(args[r]).doc)

StepIsLocal ==
    /\ store' = store /\ cfg' = cfg /\ hash_salt' = hash_salt
    /\ \A r, q \in reqs :
          (r # q /\ Locals(r)' # Locals(r)) => Locals(q)' = Locals(q)

(***************************************************************************)
(* C10: under any interleaving of the steps of concurrent requests over an *)
(* unchanged store, each request's outcome (its status, and its document   *)
(* up to the fresh ids) is the outcome of that request handled alone; no   *)
(* step writes the store or the configuration, and a step of one request   *)
(* changes nothing that belongs to another.                                *)
(***************************************************************************)
C10_StatelessUnderConcurrency == []OutcomeAsAlone /\ [][StepIsLocal]_vars

\* two different requests over one canvas have both ended with a document
\* that has an annotation, the second one built first
C10_Witness ==
    /\ Done(1) /\ Done(2)
    /\ args[1] # args[2]
    /\ response[1].status = 200 /\ response[2].status = 200
    /\ Len(Targets(response[1].body)) >= 1
    /\ Len(Targets(response[2].body)) >= 1
    /\ Targets(response[1].body) # Targets(response[2].body)
    /\ response[2].body[1].selections[1].id = "h://t/trace/"
          \o query_hash(RequestUrl(args[2])) \o "/range/uuid0"

=============================================================================
